---- MODULE Spec2Model ----
(***************************************************************************)
(* FIGfont decoder: header.rs (parse_header, HeaderBuilder::build,         *)
(* read_string_lines, full_layout_from_old_layout) and character.rs        *)
(* (read_character, read_character_with_codetag, read_codetag, read_lines).*)
(*                                                                         *)
(* A byte is a short string ("X", "@", " ", ...).  The byte stream is kept *)
(* as its sequence of physical lines: a line is [bytes, nl], bytes holding *)
(* no line feed and nl telling whether a line feed ends it; only the last  *)
(* line of a stream may be unterminated, and it is then non-empty.  Every  *)
(* read of the decoder consumes whole lines, so the cursor is the number   *)
(* of lines consumed.                                                      *)
(***************************************************************************)
EXTENDS Integers, Sequences, FiniteSets, TLC

VARIABLES stream, pos, header, last, calls, tags

vars == <<stream, pos, header, last, calls, tags>>

----------------------------------------------------------------------------
(* Bytes, options, errors *)

SP == " "
LF == "\n"
CR == "\r"
\* 0xFF: a byte that is valid in no UTF-8 sequence; every other byte is ASCII
XFF == "0xFF"

None == <<>>
Some(x) == <<x>>
unwrap_or(o, d) == IF o = <<>> THEN d ELSE o[1]

Ok == "Ok"
InvalidHeader == "InvalidHeader"
InvalidCharacter == "InvalidCharacter"
NotEnoughData == "NotEnoughData"
IoError == "Io"
Panic == "panic"

\* the two build profiles: overflow checks on (debug) or off (release)
Builds == {"debug", "release"}

----------------------------------------------------------------------------
(* Slices *)

Last(s) == s[Len(s)]
DropLast(s) == SubSeq(s, 1, Len(s) - 1)
Rest(s, k) == SubSeq(s, k + 1, Len(s))
starts_with(s, p) == Len(s) >= Len(p) /\ SubSeq(s, 1, Len(p)) = p
ends_with(s, p) == Len(s) >= Len(p) /\ SubSeq(s, Len(s) - Len(p) + 1, Len(s)) = p
from_utf8_ok(s) == \A i \in 1..Len(s) : s[i] # XFF

RECURSIVE SplitFrom(_, _, _, _)
SplitFrom(s, i, cur, acc) ==
    IF i > Len(s) THEN Append(acc, cur)
    ELSE IF s[i] = SP THEN SplitFrom(s, i + 1, <<>>, Append(acc, cur))
    ELSE SplitFrom(s, i + 1, Append(cur, s[i]), acc)

\* slice::split(|c| c == b' '): every piece, empty ones included
split(s) == SplitFrom(s, 1, <<>>, <<>>)

\* header.split(..).filter(|x| !x.is_empty())
arguments(s) == SelectSeq(split(s), LAMBDA t : t # <<>>)

\* line.splitn(2, ' ').next(): the bytes before the first space
splitn_first(s) == split(s)[1]

----------------------------------------------------------------------------
(* Integer parsing: core::num from_str_radix / str::parse *)

DigitVal(b, radix) ==
    LET v == CASE b = "0" -> 0 [] b = "1" -> 1 [] b = "2" -> 2 [] b = "3" -> 3
               [] b = "4" -> 4 [] b = "5" -> 5 [] b = "6" -> 6 [] b = "7" -> 7
               [] b = "8" -> 8 [] b = "9" -> 9
               [] b \in {"a", "A"} -> 10 [] b \in {"b", "B"} -> 11
               [] b \in {"c", "C"} -> 12 [] b \in {"d", "D"} -> 13
               [] b \in {"e", "E"} -> 14 [] b \in {"f", "F"} -> 15
               [] OTHER -> -1
    IN IF v < radix THEN v ELSE -1

ParseErr == [ok |-> FALSE, val |-> 0]

\* the integer types parsed: is it signed, are its limits within reach of
\* the model's tokens (the 64-bit limits are not), and the limits
I32Max == 2147483647
I32Min == (-2147483647) - 1
U8Max == 255
IntType(ty) ==
    CASE ty = "i32" -> [signed |-> TRUE, checked |-> TRUE, lo |-> I32Min, hi |-> I32Max]
      [] ty = "u8" -> [signed |-> FALSE, checked |-> TRUE, lo |-> 0, hi |-> U8Max]
      [] ty = "i64" -> [signed |-> TRUE, checked |-> FALSE, lo |-> 0, hi |-> 0]
      [] OTHER -> [signed |-> FALSE, checked |-> FALSE, lo |-> 0, hi |-> 0]

\* one round of the digit loop: checked_mul and checked_add of digit d
\* (checked_sub for a negative number), None on overflow
AccumulateDigit(acc, d, radix, positive, t) ==
    IF d < 0 THEN None
    ELSE IF positive
         THEN IF t.checked /\ acc > (t.hi - d) \div radix THEN None
              ELSE Some(acc * radix + d)
         ELSE IF t.checked /\ acc < (t.lo + d + radix - 1) \div radix THEN None
              ELSE Some(acc * radix - d)

RECURSIVE Accumulate(_, _, _, _, _, _)
Accumulate(ds, i, radix, positive, t, acc) ==
    IF acc = None THEN ParseErr
    ELSE IF i > Len(ds) THEN [ok |-> TRUE, val |-> acc[1]]
    ELSE Accumulate(ds, i + 1, radix, positive, t,
                    AccumulateDigit(acc[1], DigitVal(ds[i], radix), radix, positive, t))

from_str_radix(src, radix, t) ==
    IF src = <<>> THEN ParseErr
    ELSE IF src[1] \in {"+", "-"} /\ Len(src) = 1 THEN ParseErr
    ELSE Accumulate(IF src[1] = "+" \/ (src[1] = "-" /\ t.signed) THEN Rest(src, 1) ELSE src,
                    1, radix, ~(src[1] = "-" /\ t.signed), t, Some(0))

\* from_utf8(arg) then str::parse::<ty>() or <ty>::from_str_radix
parse_int(arg, radix, ty) ==
    IF from_utf8_ok(arg) THEN from_str_radix(arg, radix, IntType(ty)) ELSE ParseErr

\* impl FromStr for PrintDirection, on the result of text.parse::<u8>()
PrintDirection_from_str(r) ==
    IF r.ok /\ r.val = 0 THEN [ok |-> TRUE, val |-> "LeftToRight"]
    ELSE IF r.ok /\ r.val = 1 THEN [ok |-> TRUE, val |-> "RightToLeft"]
    ELSE [ok |-> FALSE, val |-> ""]

\* a u64 as four 16-bit limbs, most significant first
U64(n) == <<0, 0, n \div 65536, n % 65536>>
\* `l as u64` of an i64 within the 32-bit range: two's complement
as_u64(l) ==
    IF l >= 0 THEN U64(l)
    ELSE <<65535, 65535, (l \div 65536) % 65536, l % 65536>>

\* full_layout_from_old_layout without the arm `0 => 1 << 6`
full_layout_from_old_layout_no_default(old_layout) ==
    IF old_layout = -1 THEN U64(0) ELSE as_u64(old_layout)

full_layout_from_old_layout(old_layout) ==
    IF old_layout = -1 THEN U64(0)
    ELSE IF old_layout = 0 THEN U64(64)
    ELSE as_u64(old_layout)

----------------------------------------------------------------------------
(* Line readers *)

\* a line's bytes without its newline sequence (\n or \r\n)
Chomp(line) ==
    IF line.nl /\ line.bytes # <<>> /\ Last(line.bytes) = CR
    THEN DropLast(line.bytes) ELSE line.bytes

\* utils::read_line: one newline-terminated line, newline sequence stripped
read_line(s, p) ==
    IF p >= Len(s) THEN [err |-> NotEnoughData, val |-> <<>>, pos |-> p]
    ELSE IF ~s[p + 1].nl THEN [err |-> NotEnoughData, val |-> <<>>, pos |-> p + 1]
    ELSE [err |-> Ok, val |-> Chomp(s[p + 1]), pos |-> p + 1]

\* utils::read_last_line: as read_line, but the line may end with the stream
read_last_line(s, p) ==
    IF p >= Len(s) THEN [err |-> Ok, val |-> <<>>, pos |-> p]
    ELSE [err |-> Ok, val |-> Chomp(s[p + 1]), pos |-> p + 1]

\* BufRead::read_line: appends the raw line, line feed included, to buf;
\* appends nothing at the end of the stream; invalid UTF-8 is an I/O error
BufRead_read_line(s, p, buf) ==
    IF p >= Len(s) THEN [err |-> Ok, val |-> buf, pos |-> p]
    ELSE IF ~from_utf8_ok(s[p + 1].bytes) THEN [err |-> IoError, val |-> buf, pos |-> p + 1]
    ELSE [err |-> Ok, pos |-> p + 1,
          val |-> buf \o s[p + 1].bytes \o (IF s[p + 1].nl THEN <<LF>> ELSE <<>>)]

----------------------------------------------------------------------------
(* header.rs *)

MAGIC_NUMBER == <<"f", "l", "f", "2">>

\* HeaderBuilder::default()
HeaderBuilder_default ==
    [hard_blank_char |-> None, height |-> None, baseline |-> None,
     max_length |-> None, old_layout |-> None, full_layout |-> None,
     comment_lines |-> None, print_direction |-> None, codetag_count |-> None]

\* the field set by token i of the header line, and the type it parses as
HeaderField(i) ==
    CASE i = 1 -> [name |-> "height", ty |-> "usize"]
      [] i = 2 -> [name |-> "baseline", ty |-> "u64"]
      [] i = 3 -> [name |-> "max_length", ty |-> "u64"]
      [] i = 4 -> [name |-> "old_layout", ty |-> "i64"]
      [] i = 5 -> [name |-> "comment_lines", ty |-> "usize"]
      [] i = 6 -> [name |-> "print_direction", ty |-> "u8"]
      [] i = 7 -> [name |-> "full_layout", ty |-> "u64"]
      [] OTHER -> [name |-> "codetag_count", ty |-> "u64"]

\* builder.<field> = parse!(arg), r being the parse of arg; token 4 also
\* derives full_layout
set_field(b, i, r) ==
    IF ~r.ok THEN [err |-> InvalidHeader, b |-> b]
    ELSE [err |-> Ok,
          b |-> CASE i = 4 -> [b EXCEPT !.old_layout = Some(r.val),
                                        !.full_layout =
                                            Some(full_layout_from_old_layout(r.val))]
                  [] i = 7 -> [b EXCEPT !.full_layout = Some(U64(r.val))]
                  [] OTHER -> [b EXCEPT ![HeaderField(i).name] = Some(r.val)]]

\* parse!(arg) at token i
parse_macro(arg, i) ==
    IF i = 6 THEN PrintDirection_from_str(parse_int(arg, 10, "u8"))
    ELSE parse_int(arg, 10, HeaderField(i).ty)

\* one arm of `match i` in parse_header (i counts from 0)
header_argument(b, i, arg) ==
    IF i = 0
    THEN IF starts_with(arg, MAGIC_NUMBER)
         THEN [err |-> Ok, b |-> [b EXCEPT !.hard_blank_char = Some(Last(arg))]]
         ELSE [err |-> InvalidHeader, b |-> b]
    ELSE IF i <= 8 THEN set_field(b, i, parse_macro(arg, i))
    ELSE [err |-> InvalidHeader, b |-> b]

\* for (i, arg) in arguments.enumerate(): r is the state after the tokens
\* before the k-th; the loop stops at the first error
RECURSIVE header_arguments(_, _, _)
header_arguments(args, k, r) ==
    IF r.err # Ok \/ k > Len(args) THEN r
    ELSE header_arguments(args, k + 1, header_argument(r.b, k - 1, args[k]))

\* the loop of read_string_lines: num raw lines appended to one String, r
\* being the outcome of the reads so far
RECURSIVE read_string_lines_loop(_, _, _)
read_string_lines_loop(s, num, r) ==
    IF r.err # Ok \/ num = 0 THEN r
    ELSE read_string_lines_loop(s, num - 1, BufRead_read_line(s, r.pos, r.val))

\* lines 113-121 of read_string_lines: the final newline sequence
strip_final_newline(r) ==
    IF r.err # Ok THEN r
    ELSE IF ends_with(r.val, <<CR, LF>>)
         THEN [r EXCEPT !.val = SubSeq(r.val, 1, Len(r.val) - 2)]
    ELSE IF ends_with(r.val, <<LF>>)
         THEN [r EXCEPT !.val = SubSeq(r.val, 1, Len(r.val) - 1)]
    ELSE [err |-> NotEnoughData, val |-> <<>>, pos |-> r.pos]

read_string_lines(s, p, num) ==
    strip_final_newline(read_string_lines_loop(s, num, [err |-> Ok, val |-> <<>>, pos |-> p]))

\* lines 129-139 of HeaderBuilder::build: u!(..) on each required field, c
\* being the comment read
build_header(b, c) ==
    IF c.err # Ok THEN [err |-> c.err, header |-> None, pos |-> c.pos]
    ELSE IF \E f \in {"hard_blank_char", "height", "baseline", "max_length",
                      "old_layout", "full_layout"} : b[f] = None
         THEN [err |-> InvalidHeader, header |-> None, pos |-> c.pos]
    ELSE [err |-> Ok, pos |-> c.pos,
          header |-> Some([hard_blank_char |-> b.hard_blank_char[1],
                           height |-> b.height[1],
                           baseline |-> b.baseline[1],
                           max_length |-> b.max_length[1],
                           old_layout |-> b.old_layout[1],
                           full_layout |-> b.full_layout[1],
                           comment |-> c.val,
                           print_direction |-> b.print_direction,
                           codetag_count |-> b.codetag_count])]

\* HeaderBuilder::build: the comment is read first
HeaderBuilder_build(b, s, p) ==
    build_header(b, read_string_lines(s, p, unwrap_or(b.comment_lines, 0)))

\* lines 164-209 of parse_header: the builder built, unless a token failed
parse_header_built(s, p, r) ==
    IF r.err # Ok THEN [err |-> r.err, header |-> None, pos |-> p]
    ELSE HeaderBuilder_build(r.b, s, p)

\* parse_header after its read_line, line being what that returned
parse_header_line(s, line) ==
    IF line.err # Ok THEN [err |-> line.err, header |-> None, pos |-> line.pos]
    ELSE parse_header_built(s, line.pos,
             header_arguments(arguments(line.val), 1,
                              [err |-> Ok, b |-> HeaderBuilder_default]))

parse_header(s, p) == parse_header_line(s, read_line(s, p))

\* Header::codetag_count()
codetag_count(h) == unwrap_or(h.codetag_count, 0)

----------------------------------------------------------------------------
(* character.rs *)

\* Grapheme::split: one display cell per byte, the hard blank byte becoming
\* the blank marker; fails on bytes that are not UTF-8
HardBlank == "<hardblank>"
Grapheme_split(bytes, hard_blank) ==
    IF ~from_utf8_ok(bytes) THEN [ok |-> FALSE, val |-> <<>>]
    ELSE [ok |-> TRUE,
          val |-> [i \in 1..Len(bytes) |->
                      IF bytes[i] = hard_blank THEN HardBlank ELSE bytes[i]]]

\* lines 65-70 of read_codetag: the sign and the token without it
codetag_sign(code) ==
    IF starts_with(code, <<"-">>) THEN [sign |-> -1, code |-> Rest(code, 1)]
    ELSE [sign |-> 1, code |-> code]

\* lines 72-82: the base chosen from the prefix, and the digits parsed
codetag_magnitude(code) ==
    IF starts_with(code, <<"0", "x">>) \/ starts_with(code, <<"0", "X">>)
    THEN parse_int(Rest(code, 2), 16, "i32")
    ELSE IF starts_with(code, <<"0">>)
    THEN parse_int(Rest(code, 1), 8, "i32")
    ELSE parse_int(code, 10, "i32")

\* line 84: the parse error mapped, then `* sign`; i32::MIN * -1 is a panic
\* with overflow checks and a wrap without
codetag_value(r, sign, p, build) ==
    IF ~r.ok THEN [err |-> InvalidCharacter, val |-> 0, pos |-> p]
    ELSE IF r.val = I32Min /\ sign = -1
         THEN IF build = "debug" THEN [err |-> Panic, val |-> 0, pos |-> p]
              ELSE [err |-> Ok, val |-> I32Min, pos |-> p]
    ELSE [err |-> Ok, val |-> r.val * sign, pos |-> p]

codetag_of_token(sc, p, build) ==
    codetag_value(codetag_magnitude(sc.code), sc.sign, p, build)

\* read_codetag after its read_line, line being what that returned
codetag_of_line(line, build) ==
    IF line.err # Ok THEN [err |-> line.err, val |-> 0, pos |-> line.pos]
    ELSE codetag_of_token(codetag_sign(splitn_first(line.val)), line.pos, build)

read_codetag(s, p, build) == codetag_of_line(read_line(s, p), build)

\* lines.push(read_line(bread)?)
push_line(r, l) ==
    IF l.err # Ok THEN [err |-> l.err, val |-> <<>>, pos |-> l.pos]
    ELSE [err |-> Ok, val |-> Append(r.val, l.val), pos |-> l.pos]

\* lines.push(read_last_line(bread)?)
push_last_line(s, r) ==
    IF r.err # Ok THEN r ELSE push_line(r, read_last_line(s, r.pos))

\* for _ in 0..n { lines.push(read_line(bread)?) }, r being the outcome of
\* the reads so far
RECURSIVE read_lines_loop(_, _, _)
read_lines_loop(s, n, r) ==
    IF r.err # Ok \/ n = 0 THEN r
    ELSE read_lines_loop(s, n - 1, push_line(r, read_line(s, r.pos)))

\* read_lines: num - 1 ordinary lines, then the last line.  With num = 0 the
\* usize subtraction panics under overflow checks and wraps to usize::MAX
\* without them, and the loop then reads until read_line fails.
read_lines(s, p, num, build) ==
    IF num = 0
    THEN IF build = "debug" THEN [err |-> Panic, val |-> <<>>, pos |-> p]
         ELSE [err |-> NotEnoughData, val |-> <<>>,
               pos |-> IF p > Len(s) THEN p ELSE Len(s)]
    ELSE push_last_line(s, read_lines_loop(s, num - 1, [err |-> Ok, val |-> <<>>, pos |-> p]))

CharErr(e, p) == [err |-> e, val |-> <<>>, pos |-> p]

\* strip_block_terminator with the set_len forgotten: the final line is
\* checked but keeps its block terminator
strip_block_terminator_kept(lines, height, delimiter) ==
    IF height > 1 /\ ~ends_with(Last(lines), <<delimiter>>)
    THEN [ok |-> FALSE, val |-> lines]
    ELSE [ok |-> TRUE, val |-> lines]

\* lines 98-106: with height > 1 the final line must end with the delimiter
\* and loses it
strip_block_terminator(lines, height, delimiter) ==
    IF height > 1
    THEN IF ~ends_with(Last(lines), <<delimiter>>) THEN [ok |-> FALSE, val |-> lines]
         ELSE [ok |-> TRUE, val |-> [lines EXCEPT ![Len(lines)] = DropLast(@)]]
    ELSE [ok |-> TRUE, val |-> lines]

\* strip_delimiters without the comparison with the delimiter: the last byte
\* of every non-empty line is removed, whatever it is
strip_delimiters_unchecked(a, delimiter) ==
    IF ~a.ok THEN a
    ELSE IF \E i \in 1..Len(a.val) : a.val[i] = <<>>
    THEN [ok |-> FALSE, val |-> a.val]
    ELSE [ok |-> TRUE, val |-> [i \in 1..Len(a.val) |-> DropLast(a.val[i])]]

\* lines 108-119: every line is non-empty and ends with the delimiter,
\* which is removed
strip_delimiters(a, delimiter) ==
    IF ~a.ok THEN a
    ELSE IF \E i \in 1..Len(a.val) : a.val[i] = <<>> \/ Last(a.val[i]) # delimiter
    THEN [ok |-> FALSE, val |-> a.val]
    ELSE [ok |-> TRUE, val |-> [i \in 1..Len(a.val) |-> DropLast(a.val[i])]]

\* lines 121-131: each row through the grapheme segmenter
split_rows(b, hard_blank, p) ==
    IF ~b.ok THEN CharErr(InvalidCharacter, p)
    ELSE IF \E i \in 1..Len(b.val) : ~Grapheme_split(b.val[i], hard_blank).ok
    THEN CharErr(InvalidHeader, p)
    ELSE [err |-> Ok, pos |-> p,
          val |-> [i \in 1..Len(b.val) |-> Grapheme_split(b.val[i], hard_blank).val]]

\* lines 96-131, the first line being non-empty
character_of_lines(lines, h, delimiter, p) ==
    split_rows(strip_delimiters(strip_block_terminator(lines, h.height, delimiter),
                                delimiter),
               h.hard_blank_char, p)

\* read_character after its read_lines, rl being what that returned
character_of_read(rl, h) ==
    IF rl.err # Ok THEN CharErr(rl.err, rl.pos)
    ELSE IF Len(rl.val[1]) = 0 THEN CharErr(InvalidCharacter, rl.pos)
    ELSE character_of_lines(rl.val, h, Last(rl.val[1]), rl.pos)

read_character(s, p, h, build) == character_of_read(read_lines(s, p, h.height, build), h)

\* line 53-55 of read_character_with_codetag
pair_codetag(codetag, character) ==
    IF character.err # Ok
    THEN [err |-> character.err, code |-> None, val |-> <<>>, pos |-> character.pos,
          codetag |-> codetag]
    ELSE [err |-> Ok, code |-> Some(codetag.val), val |-> character.val,
          pos |-> character.pos, codetag |-> codetag]

\* read_character_with_codetag after its read_codetag; the result keeps the
\* local `codetag` (what read_codetag returned) beside what the caller gets
character_after_codetag(s, codetag, h, build) ==
    IF codetag.err # Ok
    THEN [err |-> codetag.err, code |-> None, val |-> <<>>, pos |-> codetag.pos,
          codetag |-> codetag]
    ELSE pair_codetag(codetag, read_character(s, codetag.pos, h, build))

read_character_with_codetag(s, p, h, build) ==
    character_after_codetag(s, read_codetag(s, p, build), h, build)

----------------------------------------------------------------------------
(* Bounds and the streams the decoder is run on *)

\* most comment lines a header declares or a stream holds
MaxComment == 2
\* greatest character height of the character streams
MaxHeight == 2
\* most character records in a stream of records
MaxRecords == 2
\* most character decode calls made on one stream
MaxCalls == 3

Line(bytes) == [bytes |-> bytes, nl |-> TRUE]
Unterminated(bytes) == [bytes |-> bytes, nl |-> FALSE]

DigitChars == <<"0", "1", "2", "3", "4", "5", "6", "7", "8", "9">>
Letters == <<"A", "B", "C", "D", "E", "F">>
Dec(n) == <<DigitChars[n + 1]>>

RECURSIVE JoinSP(_)
JoinSP(ts) ==
    IF ts = <<>> THEN <<>>
    ELSE IF Len(ts) = 1 THEN ts[1]
    ELSE ts[1] \o <<SP>> \o JoinSP(Tail(ts))

RECURSIVE Flatten(_)
Flatten(ss) == IF ss = <<>> THEN <<>> ELSE ss[1] \o Flatten(Tail(ss))

\* the stream with its last line left unterminated (when it has bytes)
CutFinalNewline(s) ==
    IF s # <<>> /\ Last(s).bytes # <<>>
    THEN [s EXCEPT ![Len(s)] = Unterminated(Last(s).bytes)]
    ELSE s

Flf2a == <<"f", "l", "f", "2", "a", "$">>

\* the tokens tried at each position of the header line
HeaderOpts ==
    << {Flf2a, <<"f", "l", "f", "2">>, <<"t", "l", "f", "2", "a", "$">>},
       {<<"0">>, <<"2">>, <<"x">>},
       {<<"5">>},
       {<<"2", "0">>},
       {<<"-", "1">>, <<"0">>, <<"5">>, <<"-", "2">>},
       {Dec(n) : n \in 0..MaxComment},
       {<<"0">>, <<"1">>, <<"2">>},
       {<<"7">>, <<"-", "1">>},
       {<<"3">>},
       {<<"9">>} >>

RECURSIVE TokenLists(_)
TokenLists(k) ==
    IF k = 0 THEN {<<>>}
    ELSE {Append(ts, t) : ts \in TokenLists(k - 1), t \in HeaderOpts[k]}

HeaderLines ==
    {JoinSP(ts) : ts \in UNION {TokenLists(k) : k \in 0..Len(HeaderOpts)}}
    \cup {<<SP>> \o Flf2a \o <<SP, SP, "2", SP, "5", SP, SP, SP, "2", "0", SP, "0", SP, "1", SP>>,
          Flf2a \o <<SP, "+", "2", SP, "5", SP, "2", "0", SP, "+", "5", SP, "0", "1", SP, "0", "0">>,
          Flf2a \o <<SP, "2", SP, "5", SP, "2", "0", SP, "5", SP, "1", SP, "2", "5", "6">>,
          Flf2a \o <<SP, "2", SP, XFF, SP, "2", "0", SP, "5", SP, "1">>,
          Flf2a \o <<SP, "2", SP, "5", SP, "2", "0", SP, "5", SP, "1", CR>>}

CommentLine(i) == Line(<<"c", DigitChars[i + 1]>>)
CommentLines(n) == [i \in 1..n |-> CommentLine(i)]

\* what follows the header line in the header streams
HeaderTails ==
    {CommentLines(n) : n \in 0..MaxComment}
    \cup {CutFinalNewline(CommentLines(n)) : n \in 1..MaxComment}
    \cup {<<Line(<<"c", "1", CR>>)>>,
          <<Line(<<"c", XFF>>)>>,
          <<Line(<<"c", "1", CR>>), Line(<<"X", "@">>), Line(<<"Y", "@", "@">>)>>}

HeaderStreams ==
    {<<Line(h)>> \o t : h \in HeaderLines, t \in HeaderTails}
    \cup {<<>>, <<Unterminated(Flf2a \o <<SP, "2", SP, "5", SP, "2", "0", SP, "5", SP, "1">>)>>}

\* a valid header line of height h declaring n comment lines
GoodHeader(h, n) == Line(JoinSP(<<Flf2a, Dec(h), <<"5">>, <<"2", "0">>, <<"0">>, Dec(n)>>))

\* the lines character records are made from
CharLines ==
    {<<>>, <<"@">>, <<"@", "@">>, <<"X", "@">>, <<"X", "@", "@">>, <<"X", "#">>,
     <<"$", "X", "@", "@">>, <<XFF, "@", "@">>, <<"X", "@", "@", CR>>}

RECURSIVE LineLists(_)
LineLists(k) ==
    IF k = 0 THEN {<<>>}
    ELSE {Append(ls, Line(l)) : ls \in LineLists(k - 1), l \in CharLines}

CharBodies(h) ==
    LET full == UNION {LineLists(k) : k \in 0..h}
    IN full \cup {CutFinalNewline(b) : b \in full}

CharStreams ==
    UNION {{<<GoodHeader(h, 1), CommentLine(1)>> \o b : b \in CharBodies(h)} :
              h \in 1..MaxHeight}

\* the i-th well-formed record of height h, delimiter @
RecordLines(h, i) ==
    [j \in 1..h |-> Line(<<Letters[i], DigitChars[j + 1], "@">>
                         \o (IF j = h /\ h > 1 THEN <<"@">> ELSE <<>>))]

\* the codetag line, if any, put before a record
TagChoices ==
    {<<>>, <<Line(<<"6", "5", SP, "A">>)>>, <<Line(<<"-", "-", "5">>)>>,
     <<Line(<<"0", "x">>)>>}

RECURSIVE RecordBodies(_, _)
RecordBodies(h, k) ==
    IF k = 0 THEN {<<>>}
    ELSE {b \o t \o RecordLines(h, k) : b \in RecordBodies(h, k - 1), t \in TagChoices}

RecordStreams ==
    LET bodies(h) == UNION {RecordBodies(h, k) : k \in 0..MaxRecords}
        whole == UNION {{<<GoodHeader(hn[1], hn[2])>> \o CommentLines(hn[2]) \o b :
                            b \in bodies(hn[1])} :
                        hn \in (1..MaxHeight) \X (1..MaxComment)}
    IN whole \cup {CutFinalNewline(s) : s \in whole}

\* first tokens of codetag lines
CodetagTokens ==
    {<<"0">>, <<"-", "0">>, <<"0", "0">>, <<"6", "5">>, <<"-", "6", "5">>,
     <<"0", "1", "0", "1">>, <<"-", "0", "1", "0", "1">>, <<"0", "8">>,
     <<"0", "x", "4", "1">>, <<"0", "X", "4", "1">>, <<"-", "0", "x", "1">>,
     <<"0", "x", "Z", "Z">>, <<"0", "x">>, <<"-", "0", "X">>,
     <<"-", "-", "5">>, <<"0", "x", "-", "1">>, <<"-", "+", "5">>, <<"+", "5">>,
     <<"0", "-", "7">>, <<"0", "+", "7">>, <<"0", "x", "+", "f">>,
     <<>>, <<"-">>, <<"+">>, <<"-", "-">>, <<"6", "5", "x">>, <<XFF, "5">>,
     <<"0", "x", XFF>>, <<"0", XFF>>,
     <<"2", "1", "4", "7", "4", "8", "3", "6", "4", "7">>,
     <<"2", "1", "4", "7", "4", "8", "3", "6", "4", "8">>,
     <<"-", "2", "1", "4", "7", "4", "8", "3", "6", "4", "7">>,
     <<"-", "-", "2", "1", "4", "7", "4", "8", "3", "6", "4", "8">>,
     <<"-", "-", "2", "1", "4", "7", "4", "8", "3", "6", "4", "9">>,
     <<"0", "x", "7", "f", "f", "f", "f", "f", "f", "f">>,
     <<"0", "x", "8", "0", "0", "0", "0", "0", "0", "0">>,
     <<"-", "0", "x", "-", "8", "0", "0", "0", "0", "0", "0", "0">>,
     <<"0", "1", "7", "7", "7", "7", "7", "7", "7", "7", "7", "7">>,
     <<"0", "2", "0", "0", "0", "0", "0", "0", "0", "0", "0", "0">>}

CodetagLines ==
    CodetagTokens \cup {t \o <<SP, "A">> : t \in CodetagTokens}
    \cup {t \o <<SP, SP, "x", SP, "y">> : t \in CodetagTokens}

CodetagStreams ==
    {<<GoodHeader(1, 1), CommentLine(1), Line(c), Line(<<"A", "@">>)>> : c \in CodetagLines}
    \cup {<<GoodHeader(1, 1), CommentLine(1), Unterminated(<<"6", "5">>)>>}

InitStreams == HeaderStreams \cup CharStreams \cup RecordStreams \cup CodetagStreams

----------------------------------------------------------------------------
(* The decoder on one stream: the header once, then character records *)

NoCodetag == [err |-> Ok, val |-> 0, pos |-> 0]

\* the last decode call: its operation, the cursor it started at, the error
\* kind or Ok, what it returned, and read_codetag's own outcome
NoCall ==
    [op |-> "none", err |-> Ok, start |-> 0, code |-> None, character |-> <<>>,
     codetag |-> NoCodetag]

Init ==
    /\ stream \in InitStreams
    /\ pos = 0
    /\ header = None
    /\ last = NoCall
    /\ calls = 0
    /\ tags = 0

\* Header::parse
ParseHeader ==
    /\ last.op = "none"
    /\ LET r == parse_header(stream, pos) IN
       /\ header' = r.header
       /\ pos' = r.pos
       /\ last' = [op |-> "parse_header", err |-> r.err, start |-> pos,
                   code |-> None, character |-> <<>>, codetag |-> NoCodetag]
    /\ UNCHANGED <<stream, calls, tags>>

\* FIGcharacter::parse
ParseCharacter ==
    /\ header # None
    /\ last.err # Panic
    /\ calls < MaxCalls
    /\ \E build \in Builds :
          LET r == read_character(stream, pos, header[1], build) IN
          /\ pos' = r.pos
          /\ last' = [op |-> "parse_character", err |-> r.err, start |-> pos,
                      code |-> None, character |-> r.val, codetag |-> NoCodetag]
    /\ calls' = calls + 1
    /\ UNCHANGED <<stream, header, tags>>

\* FIGcharacter::parse_with_codetag
ParseCharacterWithCodetag ==
    /\ header # None
    /\ last.err # Panic
    /\ calls < MaxCalls
    /\ \E build \in Builds :
          LET r == read_character_with_codetag(stream, pos, header[1], build) IN
          /\ pos' = r.pos
          /\ last' = [op |-> "parse_character_with_codetag", err |-> r.err,
                      start |-> pos, code |-> r.code, character |-> r.val,
                      codetag |-> r.codetag]
    /\ calls' = calls + 1
    /\ tags' = tags + 1
    /\ UNCHANGED <<stream, header>>

Next == ParseHeader \/ ParseCharacter \/ ParseCharacterWithCodetag

Spec == Init /\ [][Next]_vars

----------------------------------------------------------------------------
(* Properties of the character block decoder *)

\* the height the characters are decoded with
Height == header[1].height

\* line i of the record that starts after `start` lines, as the line reader
\* gives it
LineAt(start, i) == Chomp(stream[start + i])

\* the stream holds the h lines read_lines asks for after `start` lines
LinesSuppliedAt(start, h) ==
    /\ h >= 1
    /\ start + h <= Len(stream)
    /\ \A i \in 1..(h - 1) : stream[start + i].nl

\* the record's lines are non-empty and end with the delimiter d, the last
\* one with d twice when h > 1
WellFormedAt(start, h) ==
    /\ LinesSuppliedAt(start, h)
    /\ LineAt(start, 1) # <<>>
    /\ LET d == Last(LineAt(start, 1)) IN
       /\ \A i \in 1..h : LineAt(start, i) # <<>> /\ Last(LineAt(start, i)) = d
       /\ h > 1 => ends_with(LineAt(start, h), <<d, d>>)

\* line i without its delimiter, and without the block terminator too when
\* it is the last of several
StrippedAt(start, i, h) ==
    SubSeq(LineAt(start, i), 1,
           Len(LineAt(start, i)) - (IF i = h /\ h > 1 THEN 2 ELSE 1))

SegmentableAt(start, h) == \A i \in 1..h : from_utf8_ok(StrippedAt(start, i, h))

\* the same, for the record the last call started at
RecLine(i) == LineAt(last.start, i)
LinesSupplied(h) == LinesSuppliedAt(last.start, h)
RecordWellFormed(h) == WellFormedAt(last.start, h)
StrippedLine(i, h) == StrippedAt(last.start, i, h)
Segmentable(h) == SegmentableAt(last.start, h)

\* C1: parse_character on a well-formed record of height h >= 1 fails only
\* when a row cannot be segmented, and on success returns exactly h rows, in
\* input order, row i being the segmentation of line i without its trailing
\* delimiter (the last line of h > 1 lines without both trailing delimiters)
C1_RowsOfWellFormedRecord ==
    (last.op = "parse_character" /\ header # None /\ RecordWellFormed(Height)) =>
        /\ last.err = (IF Segmentable(Height) THEN Ok ELSE InvalidHeader)
        /\ last.err = Ok =>
              /\ Len(last.character) = Height
              /\ \A i \in 1..Height :
                    last.character[i] =
                        Grapheme_split(StrippedLine(i, Height),
                                       header[1].hard_blank_char).val

\* a record of several lines, one holding the hard blank, was decoded
C1_Witness ==
    /\ last.op = "parse_character" /\ header # None
    /\ Height > 1 /\ RecordWellFormed(Height)
    /\ last.err = Ok
    /\ \E i \in 1..Height : HardBlank \in {last.character[i][j] : j \in 1..Len(last.character[i])}

\* some line of the record is empty or does not end with the delimiter, or
\* the last of several lines does not end with it twice
RecordIllFormed(h) ==
    \/ RecLine(1) = <<>>
    \/ \E i \in 1..h : RecLine(i) = <<>> \/ Last(RecLine(i)) # Last(RecLine(1))
    \/ h > 1 /\ ~ends_with(RecLine(h), <<Last(RecLine(1)), Last(RecLine(1))>>)

\* C6: when the height lines parse_character read hold an empty line, a line
\* whose last byte is not the first line's last byte, or (height > 1) a final
\* line not ending with that byte twice, it fails with InvalidCharacter and
\* returns no character
C6_IllFormedRecordRejected ==
    (last.op = "parse_character" /\ header # None /\ LinesSupplied(Height)
       /\ RecordIllFormed(Height)) =>
        last.err = InvalidCharacter /\ last.character = <<>>

\* every line ends with the delimiter, but the last of several ends with it
\* only once
C6_Witness ==
    /\ last.op = "parse_character" /\ header # None
    /\ Height > 1 /\ LinesSupplied(Height)
    /\ \A i \in 1..Height : RecLine(i) # <<>> /\ Last(RecLine(i)) = Last(RecLine(1))
    /\ Len(RecLine(Height)) >= 2
    /\ ~ends_with(RecLine(Height), <<Last(RecLine(1)), Last(RecLine(1))>>)
    /\ last.err = InvalidCharacter

----------------------------------------------------------------------------
(* Properties of the header decoder *)

\* the header line was read: the stream starts with a terminated line
HeaderLineRead == stream # <<>> /\ stream[1].nl

\* the header line's space-separated non-empty tokens
Tokens == arguments(Chomp(stream[1]))

IsDigits(t) == t # <<>> /\ \A i \in 1..Len(t) : t[i] \in {DigitChars[k] : k \in 1..10}

\* the value of a string of decimal digits
RECURSIVE DigitsValue(_)
DigitsValue(t) ==
    IF t = <<>> THEN 0
    ELSE 10 * DigitsValue(DropLast(t))
         + ((CHOOSE k \in 1..10 : DigitChars[k] = Last(t)) - 1)

\* the value of a decimal token with an optional sign
TokenValue(t) ==
    IF t[1] = "-" THEN 0 - DigitsValue(Tail(t))
    ELSE IF t[1] = "+" THEN DigitsValue(Tail(t))
    ELSE DigitsValue(t)

\* an i64 within the 16-bit range reinterpreted as an unsigned 64-bit value
Reinterpreted(l) ==
    IF l >= 0 THEN <<0, 0, 0, l>> ELSE <<65535, 65535, 65535, 65536 + l>>

\* C2: a header parse_header returns is the positional decode of the header
\* line's tokens: the hard blank is the last byte of token 0, tokens 1-4 are
\* height, baseline, max_length and old_layout, full_layout is token 7 when
\* present and otherwise 0 for old_layout -1, 64 for 0 and old_layout as an
\* unsigned 64-bit value for the rest, print_direction is None without
\* token 6 and codetag_count() is 0 without token 8
C2_PositionalDecode ==
    header # None =>
        LET t == Tokens
            h == header[1]
        IN /\ HeaderLineRead
           /\ Len(t) >= 5
           /\ h.hard_blank_char = Last(t[1])
           /\ h.height = TokenValue(t[2])
           /\ h.baseline = TokenValue(t[3])
           /\ h.max_length = TokenValue(t[4])
           /\ h.old_layout = TokenValue(t[5])
           /\ h.full_layout =
                 (IF Len(t) >= 8 THEN <<0, 0, 0, TokenValue(t[8])>>
                  ELSE IF h.old_layout = -1 THEN <<0, 0, 0, 0>>
                  ELSE IF h.old_layout = 0 THEN <<0, 0, 0, 64>>
                  ELSE Reinterpreted(h.old_layout))
           /\ Len(t) < 7 => h.print_direction = None
           /\ Len(t) >= 7 => h.print_direction =
                 Some(IF TokenValue(t[7]) = 0 THEN "LeftToRight" ELSE "RightToLeft")
           /\ Len(t) < 9 => codetag_count(h) = 0
           /\ Len(t) >= 9 => codetag_count(h) = TokenValue(t[9])

\* a header without token 7 whose old_layout is 0 was returned
C2_Witness ==
    /\ last.op = "parse_header" /\ header # None
    /\ Len(Tokens) = 7
    /\ header[1].old_layout = 0
    /\ header[1].full_layout = <<0, 0, 0, 64>>

\* tokens 1-4 are present and parse as height, baseline, max_length and
\* old_layout
RequiredTokensValid(t) ==
    /\ Len(t) >= 5
    /\ starts_with(t[1], MAGIC_NUMBER)
    /\ \A i \in 2..4 : IsDigits(t[i])
    /\ IsDigits(t[5]) \/ (t[5][1] = "-" /\ IsDigits(Tail(t[5])))

\* C3: with a valid magic token and valid height, baseline, max_length and
\* old_layout tokens but no comment_lines token, or one that is 0,
\* parse_header succeeds with an empty comment and consumes no line after
\* the header line
C3_NoCommentLines ==
    (last.op = "parse_header" /\ HeaderLineRead /\ RequiredTokensValid(Tokens)
       /\ (Len(Tokens) = 5 \/ (Len(Tokens) = 6 /\ Tokens[6] = <<"0">>))) =>
        /\ last.err = Ok
        /\ header # None
        /\ header[1].comment = <<>>
        /\ pos = 1

\* every token present after the magic token parses as its field
PresentTokensValid(t) ==
    /\ t # <<>>
    /\ starts_with(t[1], MAGIC_NUMBER)
    /\ \A i \in 2..Len(t) : i <= 4 => IsDigits(t[i])

\* C4: a header line that starts with the magic, whose tokens all parse,
\* but of fewer than five tokens makes parse_header return InvalidHeader,
\* whatever follows the header line
C4_TooFewTokens ==
    (last.op = "parse_header" /\ HeaderLineRead /\ PresentTokensValid(Tokens)
       /\ Len(Tokens) < 5) =>
        last.err = InvalidHeader

\* C5: every header parse_header returns has height >= 1, and a character
\* is never decoded with height 0
C5_HeightPositive ==
    /\ header # None => header[1].height >= 1
    /\ last.op \in {"parse_character", "parse_character_with_codetag"} => Height >= 1

\* the header line is valid and declares n comment lines
DeclaresComment(n) ==
    /\ HeaderLineRead
    /\ RequiredTokensValid(Tokens)
    /\ Len(Tokens) = 6
    /\ IsDigits(Tokens[6])
    /\ TokenValue(Tokens[6]) = n

\* n newline-terminated lines follow the header line
CommentLinesFollow(n) ==
    /\ Len(stream) >= 1 + n
    /\ \A i \in 2..(1 + n) : stream[i].nl

\* lines 2..1+n with their newlines, the last newline sequence removed
JoinedComment(n) ==
    Flatten([i \in 1..n |-> IF i < n THEN stream[1 + i].bytes \o <<LF>>
                            ELSE Chomp(stream[1 + i])])

\* C9: with comment_lines = n >= 1 parse_header succeeds only if n
\* newline-terminated lines follow the header line, has then consumed
\* exactly those lines and returns them joined by their newlines without
\* the final newline sequence; when the stream ends before n lines are
\* available it fails with NotEnoughData
C9_CommentLines ==
    \A n \in 1..(MaxComment + 1) :
        (last.op = "parse_header" /\ DeclaresComment(n)) =>
            /\ last.err = Ok =>
                  /\ CommentLinesFollow(n)
                  /\ pos = 1 + n
                  /\ header[1].comment = JoinedComment(n)
            /\ Len(stream) < 1 + n => last.err = NotEnoughData

----------------------------------------------------------------------------
(* Properties of the codetag decoder *)

\* parse_character_with_codetag was called and read_line gave it a line
CodetagLineRead ==
    /\ last.op = "parse_character_with_codetag"
    /\ last.start < Len(stream)
    /\ stream[last.start + 1].nl

\* the codetag line's text before its first space
FirstToken == splitn_first(Chomp(stream[last.start + 1]))

HexLower == <<"0", "1", "2", "3", "4", "5", "6", "7", "8", "9",
              "a", "b", "c", "d", "e", "f">>
HexUpper == <<"0", "1", "2", "3", "4", "5", "6", "7", "8", "9",
              "A", "B", "C", "D", "E", "F">>
DigitsOf(radix) == {HexLower[k] : k \in 1..radix} \cup {HexUpper[k] : k \in 1..radix}
AllDigits(t, radix) == t # <<>> /\ \A i \in 1..Len(t) : t[i] \in DigitsOf(radix)

\* the value of a string of digits of the radix
RECURSIVE RadixValue(_, _)
RadixValue(t, radix) ==
    IF t = <<>> THEN 0
    ELSE radix * RadixValue(DropLast(t), radix)
         + ((CHOOSE k \in 1..16 : Last(t) \in {HexLower[k], HexUpper[k]}) - 1)

Negative(t) == t # <<>> /\ t[1] = "-"
Unsigned(t) == IF Negative(t) THEN Tail(t) ELSE t
HasHexPrefix(u) == starts_with(u, <<"0", "x">>) \/ starts_with(u, <<"0", "X">>)

\* the base the spec selects for a token without its sign, and its digits
BaseOf(u) ==
    IF HasHexPrefix(u) THEN 16
    ELSE IF starts_with(u, <<"0">>) /\ Len(u) > 1 THEN 8
    ELSE 10
DigitsPart(u) ==
    IF HasHexPrefix(u) THEN Rest(u, 2)
    ELSE IF starts_with(u, <<"0">>) /\ Len(u) > 1 THEN Rest(u, 1)
    ELSE u

\* a well-formed token: an optional '-', then digits of the selected base;
\* at most 7 of them, which in any base stay far inside the signed 32-bit
\* range
WellFormedToken(t) ==
    /\ AllDigits(DigitsPart(Unsigned(t)), BaseOf(Unsigned(t)))
    /\ Len(DigitsPart(Unsigned(t))) <= 7

SignedValue(t) ==
    (IF Negative(t) THEN -1 ELSE 1)
    * RadixValue(DigitsPart(Unsigned(t)), BaseOf(Unsigned(t)))

\* C7: for every well-formed first token read_codetag selects base 16 after
\* 0x/0X, base 8 after a 0 that is followed by more characters and base 10
\* for the rest (the single character 0 included), and returns the signed
\* value; the text after the first space is ignored
C7_BaseSelection ==
    (CodetagLineRead /\ WellFormedToken(FirstToken)) =>
        /\ last.codetag.err = Ok
        /\ last.codetag.val = SignedValue(FirstToken)

\* the tokens the claim lets read_codetag accept: an optional '-', then
\* 0x/0X and hex digits, or 0 and octal digits, or decimal digits
AcceptedForm(t) ==
    LET u == Unsigned(t) IN
    \/ HasHexPrefix(u) /\ AllDigits(Rest(u, 2), 16)
    \/ starts_with(u, <<"0">>) /\ (Len(u) = 1 \/ AllDigits(Rest(u, 1), 8))
    \/ AllDigits(u, 10)

\* C8: read_codetag returns InvalidCharacter for every first token that is
\* not an optional '-' followed by 0x/0X and hex digits, 0 and octal digits,
\* or decimal digits; the value of an accepted token is sign times magnitude
\* within the signed 32-bit range, and the multiplication by the sign never
\* overflows
C8_OnlySignedLiterals ==
    CodetagLineRead =>
        /\ ~AcceptedForm(FirstToken) => last.codetag.err = InvalidCharacter
        /\ last.codetag.err # Panic
        /\ last.codetag.err = Ok =>
              /\ last.codetag.val \in I32Min..I32Max
              /\ WellFormedToken(FirstToken) =>
                    last.codetag.val = SignedValue(FirstToken)

----------------------------------------------------------------------------
(* Properties of a sequence of decode calls *)

\* the height and the number of comment lines the header line declares, and
\* the number of records of that height that follow the comment lines
DeclaredHeight == TokenValue(Tokens[2])
DeclaredComment == TokenValue(Tokens[6])
RecordCount == (Len(stream) - 1 - DeclaredComment) \div DeclaredHeight

\* the stream is a valid header line of height h >= 1 declaring n >= 1
\* comment lines, the n comment lines, and k well-formed records of height
\* h; only the stream's last line may lack its newline
RecordStream ==
    /\ HeaderLineRead
    /\ RequiredTokensValid(Tokens)
    /\ Len(Tokens) = 6
    /\ IsDigits(Tokens[6])
    /\ DeclaredHeight >= 1 /\ DeclaredComment >= 1
    /\ Len(stream) >= 1 + DeclaredComment
    /\ Len(stream) = 1 + DeclaredComment + RecordCount * DeclaredHeight
    /\ \A i \in 1..(Len(stream) - 1) : stream[i].nl
    /\ \A i \in 2..(1 + DeclaredComment) : stream[i].nl /\ from_utf8_ok(stream[i].bytes)
    /\ \A r \in 0..(RecordCount - 1) :
          /\ WellFormedAt(1 + DeclaredComment + r * DeclaredHeight, DeclaredHeight)
          /\ SegmentableAt(1 + DeclaredComment + r * DeclaredHeight, DeclaredHeight)

\* the rows of the record that starts after `start` lines
RecordRows(start, h, hard_blank) ==
    [i \in 1..h |-> Grapheme_split(StrippedAt(start, i, h), hard_blank).val]

\* on a stream of k records parse_header and then up to k parse_character
\* calls succeed, the i-th returning the i-th record and leaving the cursor
\* 1 + n + i * h lines into the stream
C10_PlainCalls ==
    (last.op # "none" /\ tags = 0 /\ RecordStream /\ calls <= RecordCount) =>
        /\ last.err = Ok
        /\ pos = 1 + DeclaredComment + calls * DeclaredHeight
        /\ calls >= 1 =>
              last.character =
                  RecordRows(1 + DeclaredComment + (calls - 1) * DeclaredHeight,
                             DeclaredHeight, header[1].hard_blank_char)

\* the second of two records, the stream's last line unterminated, was
\* returned by the second parse_character call
C10_PlainCallsReached ==
    /\ last.op = "parse_character" /\ tags = 0 /\ RecordStream
    /\ calls = 2 /\ RecordCount = 2 /\ DeclaredHeight = 2
    /\ ~Last(stream).nl
    /\ last.err = Ok

\* parse_character_with_codetag reads the codetag line, then the h lines
C10_CodetagLineFirst ==
    (last.op = "parse_character_with_codetag" /\ last.err = Ok) =>
        /\ last.codetag.pos = last.start + 1
        /\ pos = last.start + 1 + Height
        /\ last.code = Some(last.codetag.val)
        /\ last.character = RecordRows(last.start + 1, Height, header[1].hard_blank_char)

\* a malformed codetag line fails with InvalidCharacter, only that line
\* being consumed
C10_MalformedCodetag ==
    (CodetagLineRead /\ ~AcceptedForm(FirstToken)) =>
        last.err = InvalidCharacter /\ pos = last.start + 1

\* C10: on a stream made of a valid header line, n >= 1 comment lines and k
\* well-formed records of height h, parse_header and k parse_character calls
\* succeed, the i-th call returns the i-th record and leaves the cursor
\* 1 + n + i * h lines into the stream; parse_character_with_codetag
\* consumes the codetag line before the h character lines, and fails with
\* InvalidCharacter having consumed only that line when it is malformed
C10_DecodeSequence ==
    C10_PlainCalls /\ C10_CodetagLineFirst /\ C10_MalformedCodetag

====
